---- MODULE Spec2Model ----
(***************************************************************************)
(* ObsController (src/src/obsController.py): a wrapper around one          *)
(* obs-websocket request client.  The remote endpoint owns all state (the  *)
(* input list with mute flags, the scenes and which one is on program); the *)
(* controller holds only `self.client`.  Every request to the endpoint is  *)
(* one atomic step and a step holds at most one request; a method is the   *)
(* sequence of its requests, so external actors and other callers can act  *)
(* between two requests of one method.  wire[p] lists the requests caller  *)
(* p has sent, wire[0] what other clients of the remote did.               *)
(***************************************************************************)
EXTENDS Integers, Sequences, FiniteSets, TLC

VARIABLES inputs, scene, client, pc, call, loc, ret, wire, start

vars == <<inputs, scene, client, pc, call, loc, ret, wire, start>>

(* ------------------------------ bounds --------------------------------- *)
\* largest number of inputs the remote holds
MaxInputs == 2
\* capability bitmasks 0..MaxCaps in the capability-decoder runs
MaxCaps == 7
\* capability bitmasks 0..MaxBatchCaps in the mute-orchestrator runs
MaxBatchCaps == 2
\* external events (removals, external mute changes, faults) per run
MaxEnv == 1

(* ------------------------------ universe ------------------------------- *)
Procs == {1, 2}
Endpoints == {1, 2}

NamePool == <<"mic", "music", "cam", "alert", "ghost">>
\* names an input may carry, in the order the remote lists them; the name
\* after the last one never exists on the remote
InputNames == {NamePool[i] : i \in 1..MaxInputs}
AllNames == {NamePool[i] : i \in 1..(MaxInputs + 1)}

Min(S) == CHOOSE x \in S : \A y \in S : x <= y

\* input populations: the first n pool names, any capability, any mute state
Populations(caps) ==
    UNION {{[i \in 1..n |-> [inputName |-> NamePool[i],
                             inputKindCaps |-> f[i][1],
                             muted |-> f[i][2]]]
            : f \in [1..n -> caps \X BOOLEAN]}
           : n \in 0..MaxInputs}

\* a python list holding the names of S, each once, in pool order
RECURSIVE ListOf(_, _)
ListOf(S, i) ==
    IF i > Len(NamePool) THEN <<>>
    ELSE IF NamePool[i] \in S THEN <<NamePool[i]>> \o ListOf(S, i + 1)
    ELSE ListOf(S, i + 1)

Range(s) == {s[i] : i \in DOMAIN s}

(* ------------------------- capability decoder -------------------------- *)
SUPPORTS_AUDIO == 2

\* python's & on non-negative integers
RECURSIVE BitAnd(_, _)
BitAnd(a, b) ==
    IF a = 0 \/ b = 0 THEN 0
    ELSE (a % 2) * (b % 2) + 2 * BitAnd(a \div 2, b \div 2)

\* get_inputs: the input list as the remote returns it
GetInputs(ins) == ins

\* get_input_info: first entry with the name, <<>> for None
GetInputInfo(ins, name) ==
    LET hits == {i \in DOMAIN GetInputs(ins) : ins[i].inputName = name}
    IN  IF hits = {} THEN <<>> ELSE <<ins[Min(hits)]>>

SupportsAudioWrongBit(caps) == BitAnd(caps, 1) # 0

\* bool(caps & SUPPORTS_AUDIO)
SupportsAudio(caps) == BitAnd(caps, SUPPORTS_AUDIO) # 0

IsAudioInputAnyInput(ins, name) == GetInputInfo(ins, name) # <<>>

\* is_audio_input
IsAudioInput(ins, name) ==
    LET info == GetInputInfo(ins, name)
    IN  IF info = <<>> THEN FALSE ELSE SupportsAudio(info[1].inputKindCaps)

(* ------------------------- remote: inputs ------------------------------ *)
HasInput(ins, name) == \E i \in DOMAIN ins : ins[i].inputName = name

\* SetInputMute / ToggleInputMute on the remote; the request fails with a
\* not-found error when no input carries the name (the client raises)
SetInputMute(ins, name, b) ==
    [i \in DOMAIN ins |->
        IF ins[i].inputName = name THEN [ins[i] EXCEPT !.muted = b] ELSE ins[i]]

ToggleInputMute(ins, name) ==
    [i \in DOMAIN ins |->
        IF ins[i].inputName = name THEN [ins[i] EXCEPT !.muted = ~ins[i].muted]
        ELSE ins[i]]

RemoveInput(ins, name) == SelectSeq(ins, LAMBDA r : r.inputName # name)


(* ----------------------------- callers --------------------------------- *)
NoneId == -1

Primitives == {"mute_input", "unmute_input", "toggle_input_mute"}
Batches == {"mute_all_audio", "unmute_all_audio", "mute_all_but", "unmute_only"}
Ended == {"returned", "raised"}

NoCall == [op |-> "", name |-> "", names |-> <<>>, hasNames |-> FALSE]
NoLoc == [items |-> <<>>, idx |-> 0, targets |-> <<>>, sub |-> "", subName |-> "",
          sceneName |-> "", container |-> "None", itemId |-> NoneId, enabled |-> FALSE,
          err |-> ""]
NoRet == [b |-> FALSE, group |-> "None", id |-> NoneId, names |-> <<>>]

Remote(p) == inputs[client[p]]

Req(p, req, name, val) == [proc |-> p, req |-> req, name |-> name, val |-> val]

\* the request r appended to its sender's log
Log(r) == [wire EXCEPT ![r.proc] = Append(@, r)]

EnvEvents == DOMAIN wire[0]
Running == \E p \in Procs : pc[p] \notin ({"idle"} \cup Ended)

\* a primitive (mute_input / unmute_input / toggle_input_mute) returns b:
\* to the caller when called directly, into the batch loop otherwise
ReturnFromPrimitive(p, b) ==
    IF call[p].op \in Primitives
    THEN /\ pc' = [pc EXCEPT ![p] = "returned"]
         /\ ret' = [ret EXCEPT ![p].b = b]
         /\ loc' = loc
    ELSE /\ pc' = [pc EXCEPT ![p] = "loop"]
         /\ loc' = [loc EXCEPT ![p].idx = @ + 1]
         /\ ret' = ret

\* is_audio_input(name) called on its own
CallIsAudioInput(p) ==
    \E name \in AllNames :
        /\ pc[p] = "idle"
        /\ pc' = [pc EXCEPT ![p] = "is_audio"]
        /\ call' = [call EXCEPT ![p] = [NoCall EXCEPT !.op = "is_audio_input", !.name = name]]
        /\ loc' = [loc EXCEPT ![p].subName = name]
        /\ UNCHANGED <<inputs, scene, client, ret, wire, start>>

\* mute_input / unmute_input / toggle_input_mute entered by the caller
CallPrimitive(p) ==
    \E op \in Primitives, name \in AllNames :
        /\ pc[p] = "idle"
        /\ pc' = [pc EXCEPT ![p] = "is_audio"]
        /\ call' = [call EXCEPT ![p] = [NoCall EXCEPT !.op = op, !.name = name]]
        /\ loc' = [loc EXCEPT ![p].sub = op, ![p].subName = name]
        /\ UNCHANGED <<inputs, scene, client, ret, wire, start>>

\* the capability check: is_audio_input's get_input_list request and decode
IsAudioStep(p) ==
    /\ pc[p] = "is_audio"
    /\ LET ok == IsAudioInput(Remote(p), loc[p].subName) IN
         /\ wire' = Log(Req(p, "get_input_list", loc[p].subName, ok))
         /\ IF call[p].op = "is_audio_input"
            THEN /\ pc' = [pc EXCEPT ![p] = "returned"]
                 /\ ret' = [ret EXCEPT ![p].b = ok]
                 /\ loc' = loc
            ELSE IF ok
            THEN /\ pc' = [pc EXCEPT ![p] = "send"]
                 /\ UNCHANGED <<ret, loc>>
            ELSE ReturnFromPrimitive(p, FALSE)
    /\ UNCHANGED <<inputs, scene, client, call, start>>

\* the mutation request of a primitive: set_input_mute(name, True/False) or
\* toggle_input_mute(name); the client raises when the remote has no such input
SendStep(p) ==
    /\ pc[p] = "send"
    /\ LET name == loc[p].subName
           op == loc[p].sub
           req == IF op = "toggle_input_mute" THEN "toggle_input_mute" ELSE "set_input_mute"
           val == (op = "mute_input")
       IN
         /\ wire' = Log(Req(p, req, name, val))
         /\ IF HasInput(Remote(p), name)
            THEN /\ inputs' = [inputs EXCEPT ![client[p]] =
                                 IF op = "toggle_input_mute"
                                 THEN ToggleInputMute(@, name)
                                 ELSE SetInputMute(@, name, val)]
                 /\ ReturnFromPrimitive(p, TRUE)
            ELSE /\ pc' = [pc EXCEPT ![p] = "raised"]
                 /\ loc' = [loc EXCEPT ![p].err = "not_found"]
                 /\ UNCHANGED <<inputs, ret>>
    /\ UNCHANGED <<scene, client, call, start>>


(* --------------------------- batch policies ---------------------------- *)
\* argument lists: every subset of the names, existing or not
ArgLists == {ListOf(S, 1) : S \in SUBSET AllNames}

InputNamesOf(ins) == [i \in DOMAIN ins |-> ins[i].inputName]

\* the caller enters a batch policy; except_inputs / only_inputs may be None
CallBatch(p, ops) ==
    \E op \in ops, names \in ArgLists, given \in BOOLEAN :
        /\ pc[p] = "idle"
        /\ given \/ (names = <<>> /\ op \in {"mute_all_audio", "unmute_all_audio"})
        /\ call' = [call EXCEPT ![p] =
                      [op |-> op, name |-> "", names |-> names, hasNames |-> given]]
        /\ IF op = "unmute_all_audio" /\ given
           THEN \* targets = [name for name in only_inputs if ...]
                /\ pc' = [pc EXCEPT ![p] = "filter"]
                /\ loc' = [loc EXCEPT ![p].items = names, ![p].idx = 1]
           ELSE /\ pc' = [pc EXCEPT ![p] = "get_inputs"]
                /\ loc' = loc
        /\ UNCHANGED <<inputs, scene, client, ret, wire, start>>

\* the second controller of a pair is handed the same list as the first, once
\* the first has returned (the two remotes do not interact)
CallSecond(p, ops, first) ==
    \E op \in ops :
        /\ pc[p] = "idle" /\ pc[first] = "returned"
        /\ call' = [call EXCEPT ![p] =
                      [op |-> op, name |-> "", names |-> call[first].names, hasNames |-> TRUE]]
        /\ pc' = [pc EXCEPT ![p] = "get_inputs"]
        /\ UNCHANGED <<inputs, scene, client, loc, ret, wire, start>>

\* for info in self.get_inputs(): one get_input_list request, iterated as fetched
GetInputsStep(p) ==
    /\ pc[p] = "get_inputs"
    /\ wire' = Log(Req(p, "get_input_list", "", FALSE))
    /\ loc' = [loc EXCEPT ![p].items = InputNamesOf(GetInputs(Remote(p))), ![p].idx = 1]
    /\ pc' = [pc EXCEPT ![p] = IF call[p].op = "unmute_all_audio" THEN "filter" ELSE "loop"]
    /\ UNCHANGED <<inputs, scene, client, call, ret, start>>

\* unmute_all_audio: the comprehension keeping the audio-capable names
FilterStep(p) ==
    /\ pc[p] = "filter"
    /\ IF loc[p].idx > Len(loc[p].items)
       THEN /\ pc' = [pc EXCEPT ![p] = "loop"]
            /\ loc' = [loc EXCEPT ![p].idx = 1]
            /\ wire' = wire
       ELSE LET name == loc[p].items[loc[p].idx]
                ok == IsAudioInput(Remote(p), name)
            IN  /\ wire' = Log(Req(p, "get_input_list", name, ok))
                /\ loc' = [loc EXCEPT ![p].idx = @ + 1,
                                      ![p].targets = IF ok THEN Append(@, name) ELSE @]
                /\ pc' = pc
    /\ UNCHANGED <<inputs, scene, client, call, ret, start>>

\* the loop has run off its list: the policy returns None
LoopEnds(p, list) ==
    /\ loc[p].idx > Len(list)
    /\ pc' = [pc EXCEPT ![p] = "returned"]
    /\ UNCHANGED <<loc, wire>>

\* the body calls a primitive on name: mute_input / unmute_input begin
EnterPrimitive(p, op, name) ==
    /\ pc' = [pc EXCEPT ![p] = "is_audio"]
    /\ loc' = [loc EXCEPT ![p].sub = op, ![p].subName = name]

\* the body moves on to the next list entry
Continue(p) ==
    /\ pc' = pc
    /\ loc' = [loc EXCEPT ![p].idx = @ + 1]

\* the body's own `if self.is_audio_input(name)` with the primitive to call
CheckedBody(p, name, op) ==
    LET ok == IsAudioInput(Remote(p), name) IN
      /\ wire' = Log(Req(p, "get_input_list", name, ok))
      /\ IF ok THEN EnterPrimitive(p, op, name) ELSE Continue(p)

MuteAllButChoiceSwapped(name, keep) ==
    IF name \in keep THEN "mute_input" ELSE "unmute_input"

\* mute_all_but: which primitive a listed audio input gets
MuteAllButChoice(name, keep) == IF name \in keep THEN "unmute_input" ELSE "mute_input"

UnmuteOnlyChoiceLeavesOthers(name, keep) == "unmute_input"

\* unmute_only: which primitive a listed audio input gets
UnmuteOnlyChoice(name, keep) == IF name \in keep THEN "unmute_input" ELSE "mute_input"

MuteAllSkipsNothing(name, skip) == FALSE

\* mute_all_audio: `if name in skip: continue`
MuteAllSkips(name, skip) == name \in skip

MuteAllAudioLoop(p) ==
    /\ pc[p] = "loop" /\ call[p].op = "mute_all_audio"
    /\ \/ LoopEnds(p, loc[p].items)
       \/ /\ loc[p].idx <= Len(loc[p].items)
          /\ LET name == loc[p].items[loc[p].idx] IN
               IF MuteAllSkips(name, Range(call[p].names))
               THEN Continue(p) /\ wire' = wire
               ELSE CheckedBody(p, name, "mute_input")
    /\ UNCHANGED <<inputs, scene, client, call, ret, start>>

UnmuteAllAudioLoop(p) ==
    /\ pc[p] = "loop" /\ call[p].op = "unmute_all_audio"
    /\ \/ LoopEnds(p, loc[p].targets)
       \/ /\ loc[p].idx <= Len(loc[p].targets)
          /\ EnterPrimitive(p, "unmute_input", loc[p].targets[loc[p].idx])
          /\ wire' = wire
    /\ UNCHANGED <<inputs, scene, client, call, ret, start>>

MuteAllButLoop(p) ==
    /\ pc[p] = "loop" /\ call[p].op = "mute_all_but"
    /\ \/ LoopEnds(p, loc[p].items)
       \/ /\ loc[p].idx <= Len(loc[p].items)
          /\ LET name == loc[p].items[loc[p].idx] IN
               CheckedBody(p, name, MuteAllButChoice(name, Range(call[p].names)))
    /\ UNCHANGED <<inputs, scene, client, call, ret, start>>

UnmuteOnlyLoop(p) ==
    /\ pc[p] = "loop" /\ call[p].op = "unmute_only"
    /\ \/ LoopEnds(p, loc[p].items)
       \/ /\ loc[p].idx <= Len(loc[p].items)
          /\ LET name == loc[p].items[loc[p].idx] IN
               CheckedBody(p, name, UnmuteOnlyChoice(name, Range(call[p].names)))
    /\ UNCHANGED <<inputs, scene, client, call, ret, start>>

(* --------------------------- external actors --------------------------- *)
\* another client of the same remote removes an input
ExtRemoveInput ==
    \E e \in Endpoints, name \in InputNames :
        /\ Running /\ Cardinality(EnvEvents) < MaxEnv
        /\ HasInput(inputs[e], name)
        /\ inputs' = [inputs EXCEPT ![e] = RemoveInput(@, name)]
        /\ wire' = Log(Req(0, "ext_remove_input", name, FALSE))
        /\ UNCHANGED <<scene, client, pc, call, loc, ret, start>>

\* another client of the same remote flips an input's mute state
ExtToggleMute ==
    \E e \in Endpoints, name \in InputNames :
        /\ Running /\ Cardinality(EnvEvents) < MaxEnv
        /\ HasInput(inputs[e], name)
        /\ inputs' = [inputs EXCEPT ![e] = ToggleInputMute(@, name)]
        /\ wire' = Log(Req(0, "ext_toggle_mute", name, FALSE))
        /\ UNCHANGED <<scene, client, pc, call, loc, ret, start>>

\* the connection drops while a mutation request is in flight: the request
\* is not applied and the client raises
TransportFault(p) ==
    /\ pc[p] = "send" /\ Cardinality(EnvEvents) < MaxEnv
    /\ pc' = [pc EXCEPT ![p] = "raised"]
    /\ loc' = [loc EXCEPT ![p].err = "transport"]
    /\ wire' = [wire EXCEPT
                  ![p] = Append(@, Req(p, IF loc[p].sub = "toggle_input_mute"
                                          THEN "toggle_input_mute" ELSE "set_input_mute",
                                       loc[p].subName, loc[p].sub = "mute_input")),
                  ![0] = Append(@, Req(0, "fault", loc[p].subName, FALSE))]
    /\ UNCHANGED <<inputs, scene, client, call, ret, start>>

(* ----------------------------- scene graph ---------------------------- *)
\* children of one group
MaxKids == 2
\* top-level items in the visibility-toggle runs
MaxToggleTop == 2

\* names of the top-level items, in enumeration order; a scene holds the first
\* n of them
TopPool == <<"z", "A", "B">>
KidNames == {"x", "y", "z"}
ToggleKidNames == {"x"}
QueryNames == {"A", "x", "z"}
ToggleNames == {"A", "x"}

\* the scenes of the remote, as get_scene_list names them; the second scene
\* holds at most the item G2
ScenePool == <<"S", "S2">>
SceneNames == Range(ScenePool)
OtherPool == <<"G2">>
OtherKidNames == {"x"}
\* names change_scene is called with: the scenes and one that does not exist
ChangeNames == SceneNames \cup {"nowhere"}

\* child lists: distinct names, item ids in creation order, any of the flags
ChildLists(names, maxKids, flags) ==
    UNION {{[i \in 1..k |-> [sourceName |-> s[i], sceneItemId |-> i,
                             sceneItemEnabled |-> f[i]]]
            : s \in {t \in [1..k -> names] : \A i, j \in 1..k : t[i] = t[j] => i = j},
              f \in [1..k -> flags]}
           : k \in 0..maxKids}

\* scenes: the first n pool names, each a leaf or a group with a child list
Scenes(pool, maxTop, lists) ==
    UNION {{[i \in 1..n |-> [sourceName |-> pool[i], sceneItemId |-> i,
                             isGroup |-> g[i][1], items |-> g[i][2]]]
            : g \in [1..n -> ({TRUE} \X lists) \cup {<<FALSE, <<>>>>}]}
           : n \in 0..maxTop}

OtherScenes(flags) ==
    Scenes(OtherPool, Len(OtherPool),
           ChildLists(OtherKidNames, Cardinality(OtherKidNames), flags))

\* a remote: the program scene's name and every scene's top-level items
RemoteWith(prog, first, second) ==
    [program |-> prog,
     scenes |-> [n \in SceneNames |-> IF n = ScenePool[1] THEN first ELSE second]]
EmptyRemote == RemoteWith(ScenePool[1], <<>>, <<>>)

\* every source placed in some scene: groups are looked up by name, whatever
\* scene is on program
Sources(r) == r.scenes[ScenePool[1]] \o r.scenes[ScenePool[2]]

\* get_scene_list: the scene names
GetSceneList(r) == ScenePool

\* get_current_program_scene
GetCurrentProgramScene(r) == r.program

\* get_scene_item_list(scene_name): the top-level items' names
GetSceneItemList(scn) == [i \in DOMAIN scn |-> scn[i].sourceName]

\* get_group_scene_item_list(name): fails unless name is a group
IsGroup(scn, name) == \E i \in DOMAIN scn : scn[i].sourceName = name /\ scn[i].isGroup

GetGroupSceneItemList(scn, name) ==
    scn[CHOOSE i \in DOMAIN scn : scn[i].sourceName = name /\ scn[i].isGroup].items

\* the inner loop of _find_source_in_groups: index of the first child with
\* the name, 0 when the loop runs through
FirstChild(items, name) ==
    LET hits == {i \in DOMAIN items : items[i].sourceName = name}
    IN  IF hits = {} THEN 0 ELSE Min(hits)

AfterFetchFailsBreak(idx, n) == n + 1

\* `except Exception: continue`: the scan goes on with the next top-level item
AfterFetchFails(idx, n) == idx + 1

HasItem(scn, container, id) ==
    /\ IsGroup(scn, container)
    /\ \E i \in DOMAIN GetGroupSceneItemList(scn, container) :
          GetGroupSceneItemList(scn, container)[i].sceneItemId = id

\* get_scene_item_enabled(container, id)
GetSceneItemEnabled(scn, container, id) ==
    LET items == GetGroupSceneItemList(scn, container)
    IN  items[CHOOSE i \in DOMAIN items : items[i].sceneItemId = id].sceneItemEnabled

\* set_scene_item_enabled(container, id, b)
SetSceneItemEnabled(scn, container, id, b) ==
    [i \in DOMAIN scn |->
        IF scn[i].sourceName = container /\ scn[i].isGroup
        THEN [scn[i] EXCEPT !.items =
                 [j \in DOMAIN @ |->
                     IF @[j].sceneItemId = id THEN [@[j] EXCEPT !.sceneItemEnabled = b]
                     ELSE @[j]]]
        ELSE scn[i]]

RemoveItem(scn, container, id) ==
    [i \in DOMAIN scn |->
        IF scn[i].sourceName = container /\ scn[i].isGroup
        THEN [scn[i] EXCEPT !.items = SelectSeq(@, LAMBDA c : c.sceneItemId # id)]
        ELSE scn[i]]

NewStateSame(enabled) == enabled

\* new_state = not info.scene_item_enabled
NewState(enabled) == ~enabled

RemoteScene(p) == scene[client[p]]

CallFind(p) ==
    \E name \in QueryNames :
        /\ pc[p] = "idle"
        /\ pc' = [pc EXCEPT ![p] = "current_scene"]
        /\ call' = [call EXCEPT ![p] = [NoCall EXCEPT !.op = "_find_source_in_groups",
                                                      !.name = name]]
        /\ UNCHANGED <<inputs, scene, client, loc, ret, wire, start>>

CallGetSources(p) ==
    /\ pc[p] = "idle"
    /\ pc' = [pc EXCEPT ![p] = "current_scene"]
    /\ call' = [call EXCEPT ![p] = [NoCall EXCEPT !.op = "get_sources"]]
    /\ UNCHANGED <<inputs, scene, client, loc, ret, wire, start>>

CallToggleSource(p) ==
    \E name \in ToggleNames :
        /\ pc[p] = "idle"
        /\ pc' = [pc EXCEPT ![p] = "current_scene"]
        /\ call' = [call EXCEPT ![p] = [NoCall EXCEPT !.op = "toggle_source", !.name = name]]
        /\ UNCHANGED <<inputs, scene, client, loc, ret, wire, start>>

\* change_scene(name) entered by the caller
CallChangeScene(p) ==
    \E name \in ChangeNames :
        /\ pc[p] = "idle"
        /\ pc' = [pc EXCEPT ![p] = "get_scene_list"]
        /\ call' = [call EXCEPT ![p] = [NoCall EXCEPT !.op = "change_scene", !.name = name]]
        /\ UNCHANGED <<inputs, scene, client, loc, ret, wire, start>>

\* scenes = self.get_scenes(); if name in scenes: ... else: return False
GetSceneListStep(p) ==
    /\ pc[p] = "get_scene_list"
    /\ LET scenes == GetSceneList(RemoteScene(p)) IN
         /\ wire' = Log(Req(p, "get_scene_list", "", FALSE))
         /\ loc' = [loc EXCEPT ![p].items = scenes]
         /\ IF call[p].name \in Range(scenes)
            THEN /\ pc' = [pc EXCEPT ![p] = "set_scene"]
                 /\ ret' = ret
            ELSE /\ pc' = [pc EXCEPT ![p] = "returned"]
                 /\ ret' = [ret EXCEPT ![p].b = FALSE]
    /\ UNCHANGED <<inputs, scene, client, call, start>>

\* self.client.set_current_program_scene(name); return True
SetProgramSceneStep(p) ==
    /\ pc[p] = "set_scene"
    /\ wire' = Log(Req(p, "set_current_program_scene", call[p].name, FALSE))
    /\ IF call[p].name \in Range(GetSceneList(RemoteScene(p)))
       THEN /\ scene' = [scene EXCEPT ![client[p]].program = call[p].name]
            /\ pc' = [pc EXCEPT ![p] = "returned"]
            /\ ret' = [ret EXCEPT ![p].b = TRUE]
            /\ loc' = loc
       ELSE /\ pc' = [pc EXCEPT ![p] = "raised"]
            /\ loc' = [loc EXCEPT ![p].err = "not_found"]
            /\ UNCHANGED <<scene, ret>>
    /\ UNCHANGED <<inputs, client, call, start>>

\* scene_name = self.get_current_scene()
CurrentSceneStep(p) ==
    /\ pc[p] = "current_scene"
    /\ wire' = Log(Req(p, "get_current_program_scene", "", FALSE))
    /\ loc' = [loc EXCEPT ![p].sceneName = GetCurrentProgramScene(RemoteScene(p))]
    /\ pc' = [pc EXCEPT ![p] = "scene_list"]
    /\ UNCHANGED <<inputs, scene, client, call, ret, start>>

\* items = self.client.get_scene_item_list(scene_name)
SceneListStep(p) ==
    /\ pc[p] = "scene_list"
    /\ wire' = Log(Req(p, "get_scene_item_list", loc[p].sceneName, FALSE))
    /\ loc' = [loc EXCEPT
                 ![p].items = GetSceneItemList(RemoteScene(p).scenes[loc[p].sceneName]),
                 ![p].idx = 1]
    /\ pc' = [pc EXCEPT ![p] = IF call[p].op = "get_sources" THEN "collect" ELSE "probe"]
    /\ UNCHANGED <<inputs, scene, client, call, ret, start>>

\* _find_source_in_groups returns (group, id) into its caller
ReturnFromFind(p, group, id) ==
    IF call[p].op = "toggle_source"
    THEN IF id = NoneId
         THEN /\ pc' = [pc EXCEPT ![p] = "returned"]
              /\ ret' = [ret EXCEPT ![p].b = FALSE]
              /\ loc' = loc
         ELSE /\ pc' = [pc EXCEPT ![p] = "get_enabled"]
              /\ loc' = [loc EXCEPT ![p].container = group, ![p].itemId = id]
              /\ ret' = ret
    ELSE /\ pc' = [pc EXCEPT ![p] = "returned"]
         /\ ret' = [ret EXCEPT ![p].group = group, ![p].id = id]
         /\ loc' = loc

\* one pass of the outer loop of _find_source_in_groups: the child-list fetch
\* of the next top-level item and the scan of its children
ProbeStep(p) ==
    /\ pc[p] = "probe"
    /\ LET n == Len(loc[p].items)
           idx == loc[p].idx
           all == Sources(RemoteScene(p))
       IN  IF idx > n
           THEN /\ ReturnFromFind(p, "None", NoneId)
                /\ wire' = wire
           ELSE LET group_name == loc[p].items[idx] IN
                /\ wire' = Log(Req(p, "get_group_scene_item_list", group_name, FALSE))
                /\ IF ~IsGroup(all, group_name)
                   THEN /\ loc' = [loc EXCEPT ![p].idx = AfterFetchFails(idx, n)]
                        /\ UNCHANGED <<pc, ret>>
                   ELSE LET group_items == GetGroupSceneItemList(all, group_name)
                            hit == FirstChild(group_items, call[p].name)
                        IN  IF hit # 0
                            THEN ReturnFromFind(p, group_name, group_items[hit].sceneItemId)
                            ELSE /\ loc' = [loc EXCEPT ![p].idx = idx + 1]
                                 /\ UNCHANGED <<pc, ret>>
    /\ UNCHANGED <<inputs, scene, client, call, start>>

ChildNames(items) == [i \in DOMAIN items |-> items[i].sourceName]

CollectChildrenDedup(names, items) ==
    names \o SelectSeq(ChildNames(items), LAMBDA n : n \notin Range(names))

\* for child in group_items.scene_items: names.append(child["sourceName"])
CollectChildren(names, items) == names \o ChildNames(items)

\* one pass of the loop of get_sources
CollectStep(p) ==
    /\ pc[p] = "collect"
    /\ LET idx == loc[p].idx
           all == Sources(RemoteScene(p))
       IN  IF idx > Len(loc[p].items)
           THEN /\ pc' = [pc EXCEPT ![p] = "returned"]
                /\ ret' = [ret EXCEPT ![p].names = loc[p].targets]
                /\ UNCHANGED <<loc, wire>>
           ELSE LET group_name == loc[p].items[idx] IN
                /\ wire' = Log(Req(p, "get_group_scene_item_list", group_name, FALSE))
                /\ loc' = [loc EXCEPT ![p].idx = idx + 1,
                                      ![p].targets =
                                         IF IsGroup(all, group_name)
                                         THEN CollectChildren(@, GetGroupSceneItemList(
                                                                    all, group_name))
                                         ELSE @]
                /\ UNCHANGED <<pc, ret>>
    /\ UNCHANGED <<inputs, scene, client, call, start>>

\* info = get_scene_item_enabled(container, scene_item_id)
GetEnabledStep(p) ==
    /\ pc[p] = "get_enabled"
    /\ LET all == Sources(RemoteScene(p)) IN
       IF HasItem(all, loc[p].container, loc[p].itemId)
       THEN LET e == GetSceneItemEnabled(all, loc[p].container, loc[p].itemId) IN
            /\ loc' = [loc EXCEPT ![p].enabled = e]
            /\ pc' = [pc EXCEPT ![p] = "set_enabled"]
            /\ wire' = Log(Req(p, "get_scene_item_enabled", loc[p].container, e))
       ELSE /\ loc' = [loc EXCEPT ![p].err = "not_found"]
            /\ pc' = [pc EXCEPT ![p] = "raised"]
            /\ wire' = Log(Req(p, "get_scene_item_enabled", loc[p].container, FALSE))
    /\ UNCHANGED <<inputs, scene, client, call, ret, start>>

\* set_scene_item_enabled(container, scene_item_id, new_state); return True
SetEnabledStep(p) ==
    /\ pc[p] = "set_enabled"
    /\ LET new_state == NewState(loc[p].enabled) IN
       /\ wire' = Log(Req(p, "set_scene_item_enabled", loc[p].container, new_state))
       /\ IF HasItem(Sources(RemoteScene(p)), loc[p].container, loc[p].itemId)
          THEN /\ scene' = [scene EXCEPT ![client[p]].scenes =
                              [n \in SceneNames |->
                                  SetSceneItemEnabled(@[n], loc[p].container,
                                                      loc[p].itemId, new_state)]]
               /\ pc' = [pc EXCEPT ![p] = "returned"]
               /\ ret' = [ret EXCEPT ![p].b = TRUE]
               /\ loc' = loc
          ELSE /\ loc' = [loc EXCEPT ![p].err = "not_found"]
               /\ pc' = [pc EXCEPT ![p] = "raised"]
               /\ UNCHANGED <<scene, ret>>
    /\ UNCHANGED <<inputs, client, call, start>>

\* another client of the same remote deletes a scene item from a group
ExtRemoveItem ==
    \E e \in Endpoints, n \in SceneNames, i \in 1..MaxToggleTop,
       id \in 1..Cardinality(ToggleKidNames) :
        /\ Running /\ Cardinality(EnvEvents) < MaxEnv
        /\ i \in DOMAIN scene[e].scenes[n]
        /\ HasItem(scene[e].scenes[n], scene[e].scenes[n][i].sourceName, id)
        /\ scene' = [scene EXCEPT ![e].scenes[n] =
                        RemoveItem(@, scene[e].scenes[n][i].sourceName, id)]
        /\ wire' = Log(Req(0, "ext_remove_item", scene[e].scenes[n][i].sourceName, FALSE))
        /\ UNCHANGED <<inputs, client, pc, call, loc, ret, start>>

(* ---------------------------- specifications --------------------------- *)
InitCallers ==
    /\ pc = [p \in Procs |-> "idle"]
    /\ call = [p \in Procs |-> NoCall]
    /\ loc = [p \in Procs |-> NoLoc]
    /\ ret = [p \in Procs |-> NoRet]
    /\ wire = [q \in {0} \cup Procs |-> <<>>]

\* one controller on one remote
InitAudio(caps) ==
    /\ \E pop \in Populations(caps) : inputs = [e \in Endpoints |-> IF e = 1 THEN pop ELSE <<>>]
    /\ scene = [e \in Endpoints |-> EmptyRemote]
    /\ client = [p \in Procs |-> 1]
    /\ start = [inputs |-> inputs, scene |-> scene]
    /\ InitCallers

\* capability decoder
InitCaps == InitAudio(0..MaxCaps)
NextCaps == CallIsAudioInput(1) \/ IsAudioStep(1)
SpecCaps == InitCaps /\ [][NextCaps]_vars

\* mute primitives under external changes
InitPrim == InitAudio(0..MaxBatchCaps)
NextPrim ==
    \/ CallPrimitive(1)
    \/ IsAudioStep(1)
    \/ SendStep(1)
    \/ ExtRemoveInput
    \/ ExtToggleMute
    \/ TransportFault(1)
SpecPrim == InitPrim /\ [][NextPrim]_vars

\* batch policies under external changes
NextBatch ==
    \/ CallBatch(1, Batches)
    \/ GetInputsStep(1)
    \/ FilterStep(1)
    \/ MuteAllAudioLoop(1)
    \/ UnmuteAllAudioLoop(1)
    \/ MuteAllButLoop(1)
    \/ UnmuteOnlyLoop(1)
    \/ IsAudioStep(1)
    \/ SendStep(1)
    \/ ExtRemoveInput
    \/ ExtToggleMute
    \/ TransportFault(1)
SpecBatch == InitPrim /\ [][NextBatch]_vars


\* scene graph index and source enumerator on a still scene
InitFind ==
    /\ inputs = [e \in Endpoints |-> <<>>]
    /\ \E scn \in Scenes(TopPool, Len(TopPool), ChildLists(KidNames, MaxKids, {TRUE})),
          other \in OtherScenes({TRUE}), prog \in SceneNames :
          scene = [e \in Endpoints |->
                      IF e = 1 THEN RemoteWith(prog, scn, other) ELSE EmptyRemote]
    /\ client = [p \in Procs |-> 1]
    /\ start = [inputs |-> inputs, scene |-> scene]
    /\ InitCallers
NextFind ==
    \/ CallFind(1)
    \/ CallGetSources(1)
    \/ CurrentSceneStep(1)
    \/ SceneListStep(1)
    \/ ProbeStep(1)
    \/ CollectStep(1)
SpecFind == InitFind /\ [][NextFind]_vars

ToggleScenes ==
    Scenes(TopPool, MaxToggleTop, ChildLists(ToggleKidNames, Cardinality(ToggleKidNames), BOOLEAN))

\* two callers toggling visibility and changing the program scene on one remote
InitToggle ==
    /\ inputs = [e \in Endpoints |-> <<>>]
    /\ \E scn \in ToggleScenes, other \in OtherScenes(BOOLEAN), prog \in SceneNames :
          scene = [e \in Endpoints |->
                      IF e = 1 THEN RemoteWith(prog, scn, other) ELSE EmptyRemote]
    /\ client = [p \in Procs |-> 1]
    /\ start = [inputs |-> inputs, scene |-> scene]
    /\ InitCallers
NextToggle ==
    \E p \in Procs :
        \/ CallToggleSource(p)
        \/ CurrentSceneStep(p)
        \/ SceneListStep(p)
        \/ ProbeStep(p)
        \/ GetEnabledStep(p)
        \/ SetEnabledStep(p)
        \/ CallChangeScene(p)
        \/ GetSceneListStep(p)
        \/ SetProgramSceneStep(p)
SpecToggle == InitToggle /\ [][NextToggle]_vars


\* batch policies with nobody else acting on the remote
NextQuiet ==
    \/ CallBatch(1, Batches)
    \/ GetInputsStep(1)
    \/ FilterStep(1)
    \/ MuteAllAudioLoop(1)
    \/ UnmuteAllAudioLoop(1)
    \/ MuteAllButLoop(1)
    \/ UnmuteOnlyLoop(1)
    \/ IsAudioStep(1)
    \/ SendStep(1)
SpecQuiet == InitPrim /\ [][NextQuiet]_vars

\* two controllers, each on its own remote, both remotes in the same state
InitPair ==
    /\ \E pop \in Populations(0..MaxBatchCaps) : inputs = [e \in Endpoints |-> pop]
    /\ scene = [e \in Endpoints |-> EmptyRemote]
    /\ client = [p \in Procs |-> p]
    /\ start = [inputs |-> inputs, scene |-> scene]
    /\ InitCallers
NextPair ==
    \/ CallBatch(1, {"mute_all_but"})
    \/ CallSecond(2, {"unmute_only"}, 1)
    \/ MuteAllButLoop(1)
    \/ UnmuteOnlyLoop(2)
    \/ \E p \in Procs :
          \/ GetInputsStep(p)
          \/ IsAudioStep(p)
          \/ SendStep(p)
SpecPair == InitPair /\ [][NextPair]_vars

\* one caller, while another client removes inputs and scene items
InitNotFound ==
    /\ \E pop \in Populations(0..MaxBatchCaps) :
          inputs = [e \in Endpoints |-> IF e = 1 THEN pop ELSE <<>>]
    /\ \E scn \in Scenes(TopPool, MaxToggleTop,
                         ChildLists(ToggleKidNames, Cardinality(ToggleKidNames), {TRUE})),
          other \in OtherScenes({TRUE}), prog \in SceneNames :
          scene = [e \in Endpoints |->
                      IF e = 1 THEN RemoteWith(prog, scn, other) ELSE EmptyRemote]
    /\ client = [p \in Procs |-> 1]
    /\ start = [inputs |-> inputs, scene |-> scene]
    /\ InitCallers
NextNotFound ==
    \/ CallPrimitive(1)
    \/ IsAudioStep(1)
    \/ SendStep(1)
    \/ CallToggleSource(1)
    \/ CurrentSceneStep(1)
    \/ SceneListStep(1)
    \/ ProbeStep(1)
    \/ GetEnabledStep(1)
    \/ SetEnabledStep(1)
    \/ ExtRemoveInput
    \/ ExtRemoveItem
SpecNotFound == InitNotFound /\ [][NextNotFound]_vars


(* ------------------------------ properties ----------------------------- *)
Quiet == EnvEvents = {}

\* bit 1 (value 2) of a capability bitmask
Bit1(b) == (b \div 2) % 2 = 1

MuteRequests == {"set_input_mute", "toggle_input_mute"}
Mutations(p) == {i \in DOMAIN wire[p] : wire[p][i].req \in MuteRequests}

StartInputs(e) == start.inputs[e]
AudioAt(ins, name) == \E i \in DOMAIN ins : ins[i].inputName = name /\ Bit1(ins[i].inputKindCaps)
MutedAt(ins, name) == \E i \in DOMAIN ins : ins[i].inputName = name /\ ins[i].muted
SameInputsAsStart(e) ==
    /\ DOMAIN inputs[e] = DOMAIN StartInputs(e)
    /\ \A i \in DOMAIN inputs[e] :
          /\ inputs[e][i].inputName = StartInputs(e)[i].inputName
          /\ inputs[e][i].inputKindCaps = StartInputs(e)[i].inputKindCaps

Keep(p) == Range(call[p].names)

\* C1: from the same remote state and with nobody else acting, mute_all_but(K)
\* and unmute_only(K) leave every input in the same mute state.
C1_SoloPoliciesAgree ==
    ( /\ pc[1] = "returned" /\ call[1].op = "mute_all_but"
      /\ pc[2] = "returned" /\ call[2].op = "unmute_only"
      /\ Keep(1) = Keep(2)
      /\ StartInputs(1) = StartInputs(2) )
    => inputs[1] = inputs[2]

C1_Witness ==
    /\ pc[1] = "returned" /\ call[1].op = "mute_all_but"
    /\ pc[2] = "returned" /\ call[2].op = "unmute_only"
    /\ \E k \in Keep(1) : AudioAt(StartInputs(1), k) /\ MutedAt(StartInputs(1), k)
    /\ \E i \in DOMAIN StartInputs(1) :
          /\ StartInputs(1)[i].inputName \notin Keep(1)
          /\ Bit1(StartInputs(1)[i].inputKindCaps) /\ ~StartInputs(1)[i].muted
    /\ inputs[2] # StartInputs(2)

\* C2: after mute_all_but(K) with nobody else acting, an audio-capable input is
\* unmuted if its name is in K and muted otherwise, a non-audio input keeps its
\* mute state, and no mutation request names a missing or non-audio input.
C2_MuteAllButResult ==
    (pc[1] = "returned" /\ call[1].op = "mute_all_but" /\ Quiet) =>
        /\ SameInputsAsStart(1)
        /\ \A i \in DOMAIN inputs[1] :
              IF Bit1(inputs[1][i].inputKindCaps)
              THEN inputs[1][i].muted = (inputs[1][i].inputName \notin Keep(1))
              ELSE inputs[1][i].muted = StartInputs(1)[i].muted
        /\ \A i \in Mutations(1) : AudioAt(StartInputs(1), wire[1][i].name)

C2_Witness ==
    /\ pc[1] = "returned" /\ call[1].op = "mute_all_but" /\ Quiet
    /\ \E k \in Keep(1) : ~HasInput(StartInputs(1), k)
    /\ \E k \in Keep(1) : HasInput(StartInputs(1), k) /\ ~AudioAt(StartInputs(1), k)
    /\ \E i \in DOMAIN inputs[1] :
          /\ inputs[1][i].inputName \notin Keep(1)
          /\ Bit1(inputs[1][i].inputKindCaps)
          /\ ~StartInputs(1)[i].muted /\ inputs[1][i].muted

\* C3: mute_all_audio(except_inputs=E) with nobody else acting mutes every
\* audio-capable input not in E, sends no mutation request for an input in E or
\* a non-audio input, and leaves their mute states as they were.
C3_MuteAllFrame ==
    (pc[1] = "returned" /\ call[1].op = "mute_all_audio" /\ Quiet) =>
        /\ SameInputsAsStart(1)
        /\ \A i \in DOMAIN inputs[1] :
              IF Bit1(inputs[1][i].inputKindCaps) /\ inputs[1][i].inputName \notin Keep(1)
              THEN inputs[1][i].muted
              ELSE inputs[1][i].muted = StartInputs(1)[i].muted
        /\ \A i \in Mutations(1) :
              /\ wire[1][i].name \notin Keep(1)
              /\ AudioAt(StartInputs(1), wire[1][i].name)
              /\ wire[1][i].req = "set_input_mute" /\ wire[1][i].val

C3_Witness ==
    /\ pc[1] = "returned" /\ call[1].op = "mute_all_audio" /\ Quiet
    /\ \E k \in Keep(1) : AudioAt(inputs[1], k) /\ ~MutedAt(inputs[1], k)
    /\ \E i \in DOMAIN inputs[1] :
          /\ inputs[1][i].inputName \notin Keep(1)
          /\ ~StartInputs(1)[i].muted /\ inputs[1][i].muted

\* C4: mute_input, unmute_input and toggle_input_mute return False and send no
\* mutation request when the named input is missing or lacks audio capability
\* at the capability check; the check precedes every mutation request; the
\* failing call leaves every input's mute state as it was.
C4_CheckStepFails ==
    \A p \in {1} :
        ( /\ call[p].op \in Primitives /\ pc[p] = "is_audio"
          /\ pc'[p] # "is_audio"
          /\ ~AudioAt(Remote(p), call[p].name) )
        => /\ pc'[p] = "returned" /\ ret'[p].b = FALSE
           /\ inputs' = inputs
           /\ \A i \in DOMAIN wire'[p] \ DOMAIN wire[p] : wire'[p][i].req \notin MuteRequests

C4_FailureSendsNothing ==
    \A p \in {1} : call[p].op \in Primitives =>
        /\ (pc[p] = "returned" /\ ~ret[p].b) =>
              /\ Mutations(p) = {}
              /\ Quiet => inputs = start.inputs
        /\ \A i \in Mutations(p) :
              /\ i > 1
              /\ wire[p][i].name = call[p].name
              /\ \E j \in 1..(i - 1) :
                    wire[p][j] = Req(p, "get_input_list", call[p].name, TRUE)

\* C4: both parts, the failing capability check as a step property and the
\* request log as an invariant.
C4_PrimitiveFailure == [][C4_CheckStepFails]_vars /\ []C4_FailureSendsNothing

C4_Witness ==
    /\ pc[1] = "returned" /\ ~ret[1].b /\ call[1].op = "mute_input" /\ Quiet
    /\ HasInput(inputs[1], call[1].name) /\ ~AudioAt(inputs[1], call[1].name)
    /\ \E i \in DOMAIN wire[1] : wire[1][i].req = "get_input_list"

\* C5: a batch policy that has ended, however it ended, has sent a mutation
\* request for every listed input that is eligible under the policy: one
\* input's failure does not end the loop.
Eligible(p, name) ==
    /\ AudioAt(Remote(p), name)
    /\ call[p].op = "mute_all_audio" => name \notin Keep(p)
    /\ (call[p].op = "unmute_all_audio" /\ call[p].hasNames) => name \in Keep(p)

C5_BatchNeverAborts ==
    \A p \in {1} :
        (call[p].op \in Batches /\ pc[p] \in Ended) =>
            \A i \in DOMAIN Remote(p) :
                Eligible(p, Remote(p)[i].inputName) =>
                    \E j \in Mutations(p) : wire[p][j].name = Remote(p)[i].inputName

\* C6: toggle_source, mute_input, unmute_input and toggle_input_mute never end
\* in a raised not-found error, whatever another client removes meanwhile.
C6_NotFoundNeverRaised ==
    \A p \in Procs : ~(pc[p] = "raised" /\ loc[p].err = "not_found")


\* the scene that is on program when the call starts
StartScene == start.scene[1].scenes[start.scene[1].program]

\* top-level positions that are groups holding a child with the name
GroupsWith(scn, name) ==
    {i \in DOMAIN scn :
        scn[i].isGroup /\ \E j \in DOMAIN scn[i].items : scn[i].items[j].sourceName = name}

ChildNamed(scn, i, name) ==
    CHOOSE c \in Range(scn[i].items) : c.sourceName = name

\* C7: _find_source_in_groups(name) returns the first top-level group, in
\* enumeration order, that has a child with the name, and that child's item
\* id; it returns (None, None) exactly when no top-level group has such a
\* child, whatever the top-level items themselves are called; items that are
\* not groups are passed over and never end the scan.
C7_FirstGroupWins ==
    (pc[1] = "returned" /\ call[1].op = "_find_source_in_groups") =>
        LET G == GroupsWith(StartScene, call[1].name) IN
        IF G = {}
        THEN ret[1].group = "None" /\ ret[1].id = NoneId
        ELSE /\ \A i \in G : i >= Min(G)
             /\ ret[1].group = StartScene[Min(G)].sourceName
             /\ ret[1].id = ChildNamed(StartScene, Min(G), call[1].name).sceneItemId

C7_Witness ==
    /\ pc[1] = "returned" /\ call[1].op = "_find_source_in_groups"
    /\ Len(StartScene) = Len(TopPool)
    /\ ~StartScene[1].isGroup
    /\ Cardinality(GroupsWith(StartScene, call[1].name)) > 1
    /\ \E i \in DOMAIN StartScene :
          ~StartScene[i].isGroup /\ StartScene[i].sourceName = call[1].name
    /\ ret[1].group = StartScene[Min(GroupsWith(StartScene, call[1].name))].sourceName
    /\ ret[1].id # ChildNamed(StartScene, Len(TopPool), call[1].name).sceneItemId

\* the children's names of every group, group after group
RECURSIVE Flattened(_)
Flattened(scn) ==
    IF scn = <<>> THEN <<>>
    ELSE (IF Head(scn).isGroup
          THEN [j \in DOMAIN Head(scn).items |-> Head(scn).items[j].sourceName]
          ELSE <<>>) \o Flattened(Tail(scn))

\* C8: get_sources() returns the child names of every top-level group of the
\* current scene, groups in enumeration order and children in child order;
\* top-level items that are not groups contribute nothing and a name held by
\* several groups appears once per group.
C8_SourcesFlattened ==
    (pc[1] = "returned" /\ call[1].op = "get_sources") =>
        /\ ret[1].names = Flattened(StartScene)
        /\ \A n \in KidNames \cup Range(GetSceneItemList(StartScene)) :
              Cardinality({k \in DOMAIN ret[1].names : ret[1].names[k] = n})
                 = Cardinality(GroupsWith(StartScene, n))

\* groups A = [x, y], B = [y] and the leaf z give [x, y, y]
C8_Witness ==
    /\ pc[1] = "returned" /\ call[1].op = "get_sources"
    /\ GetSceneItemList(StartScene) = <<"z", "A", "B">>
    /\ ~StartScene[1].isGroup
    /\ StartScene[2].isGroup /\ ChildNames(StartScene[2].items) = <<"x", "y">>
    /\ StartScene[3].isGroup /\ ChildNames(StartScene[3].items) = <<"y">>
    /\ ret[1].names = <<"x", "y", "y">>

\* C9: is_audio_input(name) is true exactly when an input with the name exists
\* and bit 1 (value 2) of its capability bitmask is set, whatever the other
\* bits are; it is false for a name no input carries.
C9_AudioBit ==
    (pc[1] = "returned" /\ call[1].op = "is_audio_input") =>
        ret[1].b = (\E i \in DOMAIN inputs[1] :
                       /\ inputs[1][i].inputName = call[1].name
                       /\ Bit1(inputs[1][i].inputKindCaps))

C9_Witness ==
    /\ pc[1] = "returned" /\ call[1].op = "is_audio_input" /\ ret[1].b
    /\ \E i \in DOMAIN inputs[1] :
          inputs[1][i].inputName = call[1].name /\ inputs[1][i].inputKindCaps = 6
    /\ \E i \in DOMAIN inputs[1] :
          inputs[1][i].inputName # call[1].name /\ inputs[1][i].inputKindCaps = 1

\* the scene caller p listed, as it was at the start
ListedScene(p) == start.scene[1].scenes[loc[p].sceneName]

\* the enabled flag of the item caller p resolved, in the remote r
FlagOf(r, p) == GetSceneItemEnabled(Sources(r), loc[p].container, loc[p].itemId)

Toggled(p) == pc[p] = "returned" /\ call[p].op = "toggle_source" /\ ret[p].b
Writes(p) == {i \in DOMAIN wire[p] : wire[p][i].req = "set_scene_item_enabled"}

\* C10: toggle_source reads the flag and writes its inverse in two requests.
\* A call returns True exactly when a group of the scene it listed holds the
\* name, and then its item is the first such group's child.  A call with no
\* other caller's write inverts the flag; of two calls on the same item, the
\* second reading after the first has written, the flag is restored; two
\* calls that both read before either writes both return True and leave the
\* flag inverted once.
C10_ToggleLastWriterWins ==
    /\ \A p \in Procs :
          (pc[p] = "returned" /\ call[p].op = "toggle_source") =>
              LET G == GroupsWith(ListedScene(p), call[p].name) IN
              /\ ret[p].b = (G # {})
              /\ ret[p].b =>
                    /\ loc[p].container = ListedScene(p)[Min(G)].sourceName
                    /\ loc[p].itemId =
                          ChildNamed(ListedScene(p), Min(G), call[p].name).sceneItemId
    /\ \A p \in Procs :
          (Toggled(p) /\ \A q \in Procs \ {p} : Writes(q) = {}) =>
              FlagOf(scene[1], p) = ~FlagOf(start.scene[1], p)
    /\ ( /\ \A p \in Procs : Toggled(p)
         /\ loc[1].container = loc[2].container /\ loc[1].itemId = loc[2].itemId ) =>
              /\ \A p \in Procs : Cardinality(Writes(p)) = 1
              /\ \E p \in Procs : loc[p].enabled = FlagOf(start.scene[1], p)
              /\ IF loc[1].enabled = loc[2].enabled
                 THEN FlagOf(scene[1], 1) = ~FlagOf(start.scene[1], 1)
                 ELSE FlagOf(scene[1], 1) = FlagOf(start.scene[1], 1)

\* both calls read the original flag of the same item and both return True
C10_Witness ==
    /\ \A p \in Procs : Toggled(p)
    /\ loc[1].container = loc[2].container /\ loc[1].itemId = loc[2].itemId
    /\ loc[1].enabled = loc[2].enabled
    /\ FlagOf(scene[1], 1) = ~FlagOf(start.scene[1], 1)

====
